---- MODULE Spec2Model ----
(***************************************************************************)
(* Job orchestration of the Loli video generator: the in-memory registry   *)
(* (app/services/storage.py), the admission check and the job driver       *)
(* (app/api/routes.py), the six-stage LLM pipeline                         *)
(* (app/services/ai_orchestrator.py) and the renderer adapter              *)
(* (app/services/video_processor.py).                                      *)
(*                                                                         *)
(* All request handlers and job drivers are coroutines of one asyncio      *)
(* event loop; every registry call is a synchronous call made on the loop  *)
(* thread.  Each registry call and each awaited external call is one step; *)
(* between two awaits a coroutine keeps the loop thread, so no handler and *)
(* no other driver takes a step in between.                                *)
(***************************************************************************)
EXTENDS Integers, Sequences, FiniteSets, TLC

\* ---------------------------------------------------------------- bounds
\* number of create requests that are accepted in one run (ids 1..MaxJobs)
MaxJobs == 3
\* number of process_video calls and of VideoProcessor instances in the runs
\* of the renderer adapter
MaxRenderCalls == 4
MaxProcessors == 2
\* number of upload_video calls
MaxUploads == 3
\* number of calls a script makes on VideoStorage, and the days it runs
MaxCalls == 4
MaxDays == 12
\* number of threads that call the registry directly, and of calls that return
MaxThreads == 2
MaxStorageCalls == 4
\* the same in the runs that follow single jobs through the pipeline
MaxPipelineJobs == 1
\* the same in the runs of create requests whose jobs fail at once
MaxAdmitted == 4

\* ------------------------------------------------------ program constants
MAX_CONCURRENT_VIDEOS == 2

\* ThreadPoolExecutor(max_workers=3) of a VideoProcessor
max_workers == 3

\* positional parameters process_video declares after self
ProcessVideoParams == 2
\* positional arguments the driver passes to process_video
DriverRenderArgs == 3
\* positional parameters BedrockService.add_voiceover_functionality declares
BedrockVoiceoverParams == 3
\* positional arguments the orchestrator passes to it
OrchestratorVoiceoverArgs == 4

\* Optional[T]: None is the empty tuple, a present value v is <<v>>
None == <<>>
Some(v) == <<v>>

\* VideoStatus
QUEUED == "queued"
GENERATING_SCRIPT == "generating_script"
RENDERING_VIDEO == "rendering_video"
UPLOADING_TO_S3 == "uploading_to_s3"
COMPLETED == "completed"
COMPLETED_WITHOUT_S3 == "completed_without_s3"
FAILED == "failed"

VideoStatus ==
    {QUEUED, GENERATING_SCRIPT, RENDERING_VIDEO, UPLOADING_TO_S3,
     COMPLETED, COMPLETED_WITHOUT_S3, FAILED}

\* (mutant) videos that are being uploaded are not counted
active_statuses_no_uploading == {QUEUED, GENERATING_SCRIPT, RENDERING_VIDEO}

\* the statuses get_active_video_count counts
active_statuses == {QUEUED, GENERATING_SCRIPT, RENDERING_VIDEO, UPLOADING_TO_S3}

TerminalStatuses == {COMPLETED, COMPLETED_WITHOUT_S3, FAILED}

\* settings.BEDROCK_MODELS
BEDROCK_MODELS ==
    {"titan-text-g1-express", "nova-pro", "claude-4-sonnet",
     "llama-3-2-3b-instruct", "mixtral-8x7b-instruct"}

\* keys of BedrockService.model_ids
model_ids ==
    {"claude-4-sonnet", "claude-opus-4", "claude-opus-4-1", "claude-3-7-sonnet",
     "claude-3-5-sonnet-v2", "claude-3-5-haiku", "claude-3-sonnet"}

\* request.model values a client submits (None: the field sent as null)
RequestModels == {"gpt-5", "claude-4-sonnet", "nova-pro", "null"}

\* request.voice values a client submits
RequestVoices == {"Joanna", "Matthew"}

\* ------------------------------------------------------------- scripts
\* A script is a sequence of lines; the lines the code searches for, inserts
\* or rewrites are kept apart, every other line is T_BODY.
T_MANIM == "from manim import *"
T_VO_IMPORT == "from manim_voiceover import VoiceoverScene"
T_POLLY_IMPORT == "from app.services.aws_polly import create_polly_service"
T_NUMPY == "import numpy as np"
T_CLASS_SCENE == "class Lesson(Scene):"
T_CLASS_VO == "class Lesson(VoiceoverScene):"
T_CONSTRUCT == "def construct(self):"
T_BODY == "self.play(Create(shape))"
T_NORMALIZE == "d = v.normalize()"
T_NP_NORM == "d = (v / np.linalg.norm(v))"
\* the markdown fence lines (three backquotes) an LLM wraps code in
T_FENCE_OPEN == "[fence]python"
T_FENCE_CLOSE == "[fence]"
T_BLANK == ""

\* the speech-service initialisation block, bound to a voice
SpeechInit(voice) ==
    IF voice = "Joanna"
    THEN "self.set_speech_service(create_polly_service(voice=Joanna))"
    ELSE "self.set_speech_service(create_polly_service(voice=Matthew))"

SpeechInits == {SpeechInit(v) : v \in RequestVoices}

Range(seq) == {seq[i] : i \in DOMAIN seq}

\* s.replace(tok, by) / re.sub(tok, by, s): every occurrence is rewritten
RECURSIVE ReplaceAll(_, _, _)
ReplaceAll(seq, tok, by) ==
    IF seq = <<>> THEN <<>>
    ELSE (IF Head(seq) = tok THEN by ELSE <<Head(seq)>>)
            \o ReplaceAll(Tail(seq), tok, by)

\* 'from manim import *' in s
HasManimImport(sc) == T_MANIM \in Range(sc)
\* 'from manim_voiceover' in s
HasVoiceoverImport(sc) == T_VO_IMPORT \in Range(sc)
\* 'VoiceoverScene' in s
HasVoiceoverScene(sc) == Range(sc) \cap {T_VO_IMPORT, T_CLASS_VO} # {}
\* 'create_polly_service' in s
HasPollyService(sc) == Range(sc) \cap ({T_POLLY_IMPORT} \cup SpeechInits) # {}

\* re.sub(r'class\s+(\w+)\s*\(\s*Scene\s*\):', r'class \1(VoiceoverScene):', s)
SceneToVoiceoverScene(sc) == ReplaceAll(sc, T_CLASS_SCENE, <<T_CLASS_VO>>)

\* str.strip() on a script whose blank lines are T_BLANK
RECURSIVE LStrip(_)
LStrip(sc) ==
    IF sc # <<>> /\ Head(sc) = T_BLANK THEN LStrip(Tail(sc)) ELSE sc

RECURSIVE RStrip(_)
RStrip(sc) ==
    IF sc # <<>> /\ sc[Len(sc)] = T_BLANK
    THEN RStrip(SubSeq(sc, 1, Len(sc) - 1)) ELSE sc

Strip(sc) == RStrip(LStrip(sc))

_fix_common_issues(sc) ==
    LET fixed == ReplaceAll(sc, T_NORMALIZE, <<T_NP_NORM>>)
    IN  IF T_NP_NORM \in Range(fixed) /\ T_NUMPY \notin Range(fixed)
        THEN <<T_NUMPY>> \o fixed
        ELSE fixed

_clean_script(sc) ==
    LET unfenced == ReplaceAll(ReplaceAll(sc, T_FENCE_OPEN, <<>>),
                               T_FENCE_CLOSE, <<>>)
    IN  _fix_common_issues(Strip(unfenced))

_ensure_polly_imports(sc) ==
    IF HasVoiceoverScene(sc) /\ ~HasPollyService(sc)
    THEN IF HasManimImport(sc)
         THEN ReplaceAll(sc, T_MANIM, <<T_MANIM, T_POLLY_IMPORT>>)
         ELSE <<T_POLLY_IMPORT>> \o sc
    ELSE sc

_add_voiceover_imports(sc) ==
    IF HasManimImport(sc)
    THEN ReplaceAll(sc, T_MANIM, <<T_MANIM, T_VO_IMPORT, T_POLLY_IMPORT>>)
    ELSE <<T_MANIM, T_VO_IMPORT, T_POLLY_IMPORT, T_BLANK>> \o sc

\* (mutant) the speech service is not initialised
_add_basic_voiceover_structure_no_init(sc, voice) ==
    SceneToVoiceoverScene(IF ~HasVoiceoverImport(sc)
                          THEN <<T_VO_IMPORT, T_POLLY_IMPORT>> \o sc
                          ELSE sc)

_add_basic_voiceover_structure(sc, voice) ==
    LET imported == IF ~HasVoiceoverImport(sc)
                    THEN <<T_VO_IMPORT, T_POLLY_IMPORT>> \o sc
                    ELSE sc
        converted == SceneToVoiceoverScene(imported)
    IN  ReplaceAll(converted, T_CONSTRUCT, <<T_CONSTRUCT, SpeechInit(voice)>>)

\* lines 165-180 of _add_voiceover_functionality: what is done with the text
\* the provider returned
IntegrateVoiceover(voiceover_script) ==
    LET cleaned == _ensure_polly_imports(_clean_script(voiceover_script))
    IN  IF ~HasVoiceoverScene(cleaned)
        THEN SceneToVoiceoverScene(
                 IF ~HasVoiceoverImport(cleaned)
                 THEN _add_voiceover_imports(cleaned)
                 ELSE cleaned)
        ELSE cleaned

VARIABLES
    videos,     \* VideoStorage._videos: video_id -> VideoInfo
    lock,       \* VideoStorage._lock: "free", or the call that holds it
    tasks,      \* video_id -> the background task generate_video_task
    nextId,     \* the next uuid4 create_video draws
    response,   \* the last answer of POST /videos
    renderer,   \* how the manim child process behaves in this deployment
    s3,         \* how the S3 upload behaves in this deployment
    processors, \* the VideoProcessor instances: executor queue and workers
    calls,      \* the calls of process_video(script_content, video_id)
    disk,       \* the temporary directories and the files of videos_dir
    threads,    \* the threads that call VideoStorage methods directly
    applied,    \* the VideoStorage calls that returned, in order of return
    uploads,    \* the calls of S3VideoService.upload_video
    remote,     \* the video ids that have an object in the S3 bucket
    listed,     \* what the last list_videos call returned
    call,       \* the last call of a script that calls VideoStorage directly
    clock       \* datetime.utcnow(), in days

\* the variables of the renderer adapter and of direct registry callers
render_vars == <<processors, calls, disk>>
storage_vars == <<threads, applied>>
\* the variables of the S3 service
publish_vars == <<uploads, remote>>
\* the variables of a script that calls VideoStorage, one call after another
caller_vars == <<listed, call, clock>>

vars ==
    <<videos, lock, tasks, nextId, response, renderer, s3, render_vars,
      storage_vars, publish_vars, caller_vars>>

\* ------------------------------------------------------------ registry
\* VideoInfo(...) as create_video builds it; the other fields take the
\* defaults of the pydantic model
NewVideoInfo(video_id, prompt, created_at) ==
    [video_id |-> video_id,
     status |-> QUEUED,
     message |-> "Video generation queued",
     video_path |-> None,
     s3_url |-> None,
     created_at |-> created_at,
     script_content |-> None,
     error_details |-> None,
     progress |-> 0,
     prompt |-> Some(prompt)]

\* (mutant) the new record is stored under every id
StoreVideo_reset(vs, video_id, info) ==
    [i \in DOMAIN vs \cup {video_id} |-> info]

\* self._videos[video_id] = video_info
StoreVideo(vs, video_id, info) ==
    [i \in DOMAIN vs \cup {video_id} |-> IF i = video_id THEN info ELSE vs[i]]

\* the setattr loop of update_video: keys that are no attribute are skipped
MergeUpdates(info, updates) ==
    [f \in DOMAIN info |-> IF f \in DOMAIN updates THEN updates[f] ELSE info[f]]

\* (mutant) the attributes are set on every record
update_video_all(vs, video_id, updates) ==
    [i \in DOMAIN vs |-> MergeUpdates(vs[i], updates)]

\* update_video on an id that is in self._videos
update_video(vs, video_id, updates) ==
    [vs EXCEPT ![video_id] = MergeUpdates(@, updates)]

\* (mutant) queued videos are not counted
get_active_video_count_processing(vs) ==
    Cardinality({i \in DOMAIN vs : vs[i].status \in active_statuses \ {QUEUED}})

get_active_video_count(vs) ==
    Cardinality({i \in DOMAIN vs : vs[i].status \in active_statuses})

\* get_video: the local record, else VideoNotFoundError (the S3 fallback calls
\* _list_videos_sync, which S3VideoService does not define; the AttributeError
\* is swallowed and the lookup falls through to the raise)
get_video(vs, video_id) ==
    IF video_id \in DOMAIN vs THEN Some(vs[video_id]) ELSE None

\* get_public_url of S3VideoService
get_public_url(video_id) ==
    <<"https://", "loli-bucket", ".s3.", "eu-west-3", ".amazonaws.com/", video_id, ".mp4">>

\* Positions of generate_video_task that it reaches and leaves without an
\* await: from the return of the pipeline to the failed process_video call,
\* and the except clause.  A task at one of them holds the loop thread.
SyncPcs ==
    {"store_script", "set_rendering", "set_uploading", "call_process_video",
     "except"}

\* the tasks other than `id` are suspended at an await (or not started, or
\* finished)
OthersSuspended(id) ==
    \A j \in DOMAIN tasks \ {id} : tasks[j].pc \notin SyncPcs

\* The loop thread starts a handler only while it is not blocked inside an
\* acquire of the registry lock and no task is between two awaits.
LoopRuns == lock = "free" /\ OthersSuspended(0)

\* ------------------------------------------------------------ pipeline
\* what the provider behind _llm is for a model selector
Route(model) ==
    IF model = "gpt-5" THEN "openai"
    ELSE IF model \in BEDROCK_MODELS
         THEN (IF model \in model_ids THEN "bedrock" ELSE "bedrock_no_model_id")
         ELSE "unsupported"

\* the model selector generate_video_content passes to _llm at stage k
StageModel(k, model) ==
    IF k = 1 THEN model ELSE IF k = 2 THEN "gpt-5" ELSE "claude-4-sonnet"

\* str(e) of the exception a provider raises from model_call
ProviderError(route) ==
    IF route = "openai"
    THEN <<"OpenAI call failed", "provider error">>
    ELSE <<"Bedrock generation failed", "provider error">>

\* raise ScriptGenerationError(f"Pipeline failed: {str(e)}")
PipelineFailed(cause) == <<"Pipeline failed">> \o cause

\* ---------------------------------------------------- inputs of a run
\* scripts an LLM returns at stages 3, 4 and 5
S_EMPTY == <<>>
S_PLAIN == <<T_MANIM, T_CLASS_SCENE, T_CONSTRUCT, T_BODY>>
S_BARE == <<T_CLASS_SCENE, T_CONSTRUCT, T_NORMALIZE>>

\* scripts the LLM of stage 6 returns when asked to bind `voice`
V_FULL(voice) ==
    <<T_FENCE_OPEN, T_MANIM, T_VO_IMPORT, T_CLASS_VO, T_CONSTRUCT,
      SpeechInit(voice), T_BODY, T_FENCE_CLOSE>>
V_NO_POLLY == <<T_MANIM, T_VO_IMPORT, T_CLASS_VO, T_CONSTRUCT, T_BODY>>
V_FENCES == <<T_FENCE_OPEN, T_FENCE_CLOSE>>

\* texts an LLM returns at stages 1 and 2
Explanation == <<"explanation">>

\* What the clients and the LLMs of a run may send: the request models and
\* voices, the scripts of stages 3-5, whether OpenAI may answer with a
\* message whose content is None, and the scripts of stage 6.
\* The registry runs take several jobs through few texts, the pipeline runs
\* take few jobs through many texts.
RegistryInputs ==
    [models |-> {"gpt-5", "claude-4-sonnet", "null"},
     voices |-> {"Joanna"},
     scripts |-> {S_PLAIN},
     nones |-> {FALSE},
     voiceovers |-> {V_FULL("Joanna")}]

PipelineInputs ==
    [models |-> RequestModels,
     voices |-> RequestVoices,
     scripts |-> {S_EMPTY, S_PLAIN, S_BARE},
     nones |-> BOOLEAN,
     voiceovers |-> {<<>>, V_FENCES, V_FULL("Joanna"), V_FULL("Matthew"),
                     V_NO_POLLY}]

\* the default of the voice parameter of generate_video_content
DefaultVoice == "Joanna"

\* ---------------------------------------------------------------- tasks
\* generate_video_task as BackgroundTasks holds it: its position (pc, and the
\* pipeline stage it is about to call), its arguments and locals, and a log:
\* the stages it has called, the stage whose result the last called stage
\* was given (0: the question), the stages whose call raised, the script stage 5 returned, how the provider
\* call of stage 6 ended, and the number of calls of process_video
NewTask(model, voice) ==
    [pc |-> "start",
     stage |-> 1,
     model |-> model,
     voice |-> voice,
     refined_is_none |-> FALSE,
     cur |-> <<>>,
     err |-> <<>>,
     stages |-> <<>>,
     input |-> 0,
     failed |-> {},
     script5 |-> <<>>,
     voiceover |-> "",
     process_video_calls |-> 0]

\* (mutant) the finished task is scheduled again
Finished_rescheduled(t, pc) == [t EXCEPT !.pc = "start", !.stage = 1]

\* the coroutine has returned (or died): its arguments and locals are gone
Finished(t, pc) ==
    [t EXCEPT !.pc = pc, !.stage = 0, !.model = "", !.voice = "", !.refined_is_none = FALSE,
              !.cur = <<>>, !.err = <<>>, !.script5 = <<>>, !.input = 0]

\* an exception reaches `except Exception as e` of generate_video_task
Raise(t, msg) ==
    [t EXCEPT !.pc = "except", !.stage = 0, !.err = msg, !.cur = <<>>,
              !.refined_is_none = FALSE]

VideoNotFound == <<"Video not found">>

\* a driver statement storage.update_video(video_id, **updates) followed by
\* a move to pc `next`; an unknown id raises VideoNotFoundError
DriverUpdate(id, updates, next) ==
    IF id \in DOMAIN videos
    THEN /\ videos' = update_video(videos, id, updates)
         /\ tasks' = [tasks EXCEPT ![id].pc = next]
    ELSE /\ videos' = videos
         /\ tasks' = [tasks EXCEPT ![id] = Raise(@, VideoNotFound)]

\* ----------------------------------------------------------------- Init
RendererModes == {"ok", "nonzero", "timeout"}

\* the message of the VideoProcessingError _run_manim raises when the child
\* exits non-zero (with the captured stderr) or exceeds the timeout
RenderError(mode) ==
    IF mode = "timeout"
    THEN <<"Video generation timed out">>
    ELSE <<"Manim execution failed", "stderr">>
S3Modes == {"ok", "fail"}

\* the state after import of app.services.storage, before any request
Registry0 ==
    /\ videos = <<>>
    /\ lock = "free"
    /\ tasks = <<>>
    /\ nextId = 1
    /\ response = [code |-> 0, video_id |-> 0]

\* no VideoProcessor has been built, nothing is on disk
Render0 ==
    /\ processors = <<>>
    /\ calls = <<>>
    /\ disk = [temp_dirs |-> {}, videos_dir |-> {}]

\* no thread is inside a VideoStorage method
Storage0 ==
    /\ threads = <<>>
    /\ applied = <<>>

\* nothing was uploaded, the bucket is empty
Publish0 ==
    /\ uploads = <<>>
    /\ remote = {}

\* no call was made
NoCall ==
    [n |-> 0, at |-> 0, op |-> "", video_id |-> 0, updates |-> <<>>,
     status |-> None, ret |-> ""]

\* the script has called nothing, and the clock starts at day 0
Caller0 ==
    /\ listed = None
    /\ call = NoCall
    /\ clock = 0

Init ==
    /\ Registry0
    /\ renderer = "ok"
    /\ s3 = "ok"
    /\ Render0
    /\ Storage0
    /\ Publish0
    /\ Caller0

PipelineInit ==
    /\ Registry0
    /\ renderer \in RendererModes
    /\ s3 \in S3Modes
    /\ Render0
    /\ Storage0
    /\ Publish0
    /\ Caller0

\* -------------------------------------------------------------- handlers
\* POST /videos: the admission check, create_video and add_task run without
\* an await between them
CreateVideo(maxJobs, models, voices) ==
    /\ LoopRuns
    /\ \E model \in models, voice \in voices :
        IF get_active_video_count(videos) >= MAX_CONCURRENT_VIDEOS
        THEN /\ response' = [code |-> 429, video_id |-> 0]
             /\ UNCHANGED <<videos, lock, tasks, nextId, renderer, s3, render_vars,
                 storage_vars,
                 publish_vars, caller_vars>>
        ELSE /\ nextId <= maxJobs
             /\ videos' = StoreVideo(videos, nextId,
                              NewVideoInfo(nextId, "prompt", nextId))
             /\ tasks' = StoreVideo(tasks, nextId,
                              NewTask(IF model = "null" THEN "claude-3-7-sonnet"
                                      ELSE model, voice))
             /\ nextId' = nextId + 1
             /\ response' = [code |-> 200, video_id |-> nextId]
             /\ UNCHANGED <<lock, renderer, s3, render_vars,
                 storage_vars,
                 publish_vars, caller_vars>>

\* DELETE /videos/{id}: delete_video takes the lock and calls get_video, which
\* takes the same non-reentrant lock: the call never returns and never
\* releases, and it runs on the loop thread
DeleteVideo ==
    /\ LoopRuns
    /\ lock' = "delete_video"
    /\ UNCHANGED <<videos, tasks, nextId, response, renderer, s3, render_vars,
                 storage_vars,
                 publish_vars, caller_vars>>

\* GET /stats: get_stats takes the lock and calls get_active_video_count,
\* which takes it again
GetStats ==
    /\ LoopRuns
    /\ lock' = "get_stats"
    /\ UNCHANGED <<videos, tasks, nextId, response, renderer, s3, render_vars,
                 storage_vars,
                 publish_vars, caller_vars>>

\* ---------------------------------------------------------------- driver
Driver(id, pc) ==
    /\ lock = "free"
    /\ id \in DOMAIN tasks
    /\ tasks[id].pc = pc
    /\ OthersSuspended(id)

\* the keyword arguments of the update_video calls of routes.py 36-41, 52-57
\* and 70-75
\* (mutant) the first update already stores a URL
GeneratingUpdates_with_url ==
    [status |-> GENERATING_SCRIPT,
     message |-> "Running LLM pipeline...",
     s3_url |-> Some(<<"https://">>),
     progress |-> 25]

GeneratingUpdates ==
    [status |-> GENERATING_SCRIPT,
     message |-> "Running LLM pipeline...",
     progress |-> 25]

\* (mutant) the rendering update clears the script
RenderingUpdates_clearing ==
    [status |-> RENDERING_VIDEO,
     message |-> "Rendering video...",
     script_content |-> None,
     progress |-> 50]

RenderingUpdates_no_status ==
    [message |-> "Rendering video...",
     progress |-> 50]

RenderingUpdates ==
    [status |-> RENDERING_VIDEO,
     message |-> "Rendering video...",
     progress |-> 50]

\* (mutant) the uploading update reports less progress than the one before
UploadingUpdates_low ==
    [status |-> UPLOADING_TO_S3,
     message |-> "Uploading video to S3...",
     progress |-> 10]

UploadingUpdates ==
    [status |-> UPLOADING_TO_S3,
     message |-> "Uploading video to S3...",
     progress |-> 85]

\* routes.py 36-41
SetGenerating(id) ==
    /\ Driver(id, "start")
    /\ DriverUpdate(id, GeneratingUpdates, "pipeline")
    /\ UNCHANGED <<lock, nextId, response, renderer, s3, render_vars,
                 storage_vars,
                 publish_vars, caller_vars>>

AtStage(id, ks) == Driver(id, "pipeline") /\ tasks[id].stage \in ks

\* (mutant) a stage is given what the stage before it was given
StageInput_stale(t) == t.input

\* the stage whose result the prompt of the current stage is built from: the
\* variable the await of the stage before it was assigned to (0: the
\* question, for stage 1)
StageInput(t) == t.stage - 1

\* the task after it has entered the call of its current stage
Invoked(t) == [t EXCEPT !.stages = Append(@, t.stage), !.input = StageInput(t)]

\* the log entry: the call of the current stage raised
LogFailure(t) == [t EXCEPT !.failed = @ \cup {t.stage}]

\* _llm raises before any request is sent: the selector is in no routing
\* branch, or Bedrock has no model id for it
StageRouteError(id) ==
    /\ AtStage(id, 1..5)
    /\ LET t == tasks[id]
           route == Route(StageModel(t.stage, t.model))
       IN  /\ route \in {"unsupported", "bedrock_no_model_id"}
           /\ tasks' = [tasks EXCEPT ![id] =
                  Raise(Invoked(LogFailure(t)), PipelineFailed(
                      IF route = "unsupported"
                      THEN <<"Unsupported model">>
                      ELSE <<"Bedrock generation failed", "Unsupported model">>))]
    /\ UNCHANGED <<videos, lock, nextId, response, renderer, s3, render_vars,
                 storage_vars,
                 publish_vars, caller_vars>>

\* (mutant) the failure is swallowed and the pipeline goes on
StageFailure_swallowed(t, route) == [Invoked(t) EXCEPT !.stage = t.stage + 1]

\* what generate_video_content does when the provider call of stage 1..5
\* raises: the except clause of lines 54-56 re-raises
StageFailure(t, route) == Raise(Invoked(t), PipelineFailed(ProviderError(route)))

\* the provider call of stage 1..5 raises
StageRaises(id) ==
    /\ AtStage(id, 1..5)
    /\ LET t == tasks[id]
           route == Route(StageModel(t.stage, t.model))
       IN  /\ route \in {"openai", "bedrock"}
           /\ tasks' = [tasks EXCEPT ![id] = StageFailure(LogFailure(t), route)]
    /\ UNCHANGED <<videos, lock, nextId, response, renderer, s3, render_vars,
                 storage_vars,
                 publish_vars, caller_vars>>

\* the provider call of stage 1..5 returns `out`; OpenAI may return a message
\* whose content is None.  After stage 5 the log line of line 49 takes
\* len(refined_explanation).
StageSuccess(t, out, is_none) ==
    LET refined_is_none == IF t.stage = 2 THEN is_none ELSE t.refined_is_none
    IN  IF t.stage = 5 /\ refined_is_none
        THEN Raise(Invoked(t),
                   PipelineFailed(<<"object of type NoneType has no len()">>))
        ELSE [Invoked(t) EXCEPT !.stage = t.stage + 1,
                                !.cur = out,
                                !.refined_is_none = refined_is_none]

StageReturns(id, scripts, nones) ==
    /\ AtStage(id, 1..5)
    /\ LET t == tasks[id]
           route == Route(StageModel(t.stage, t.model))
       IN  /\ route \in {"openai", "bedrock"}
           /\ \E out \in (IF t.stage \in {1, 2} THEN {Explanation} ELSE scripts),
                 is_none \in (IF route = "openai" /\ t.stage = 2
                              THEN nones ELSE {FALSE}) :
                tasks' = [tasks EXCEPT ![id] =
                    [StageSuccess(t, out, is_none) EXCEPT
                        !.script5 = IF t.stage = 5 THEN out ELSE @]]
    /\ UNCHANGED <<videos, lock, nextId, response, renderer, s3, render_vars,
                 storage_vars,
                 publish_vars, caller_vars>>

\* the voice generate_video_content receives: the driver passes (prompt,
\* model) only, so the parameter keeps its default
PipelineVoice(t) == DefaultVoice

\* _add_voiceover_functionality given what the provider method returned
\* (None: a message without content, on which _clean_script raises and the
\* except branch of line 182 builds the basic structure)
VoiceoverResult(script_content, returned, voice) ==
    IF returned = None
    THEN _add_basic_voiceover_structure(script_content, voice)
    ELSE IntegrateVoiceover(returned[1])

\* the pipeline returns final_script to the driver
PipelineReturns(t, final_script) ==
    [Invoked(t) EXCEPT !.pc = "store_script", !.stage = 0, !.cur = final_script]

\* stage 6 for model "gpt-5": OpenAIService.add_voiceover_functionality
\* returns the LLM's text ("text") or None ("none_content"), or catches its
\* own failure and returns the script it was given ("provider_raised")
AddVoiceoverOpenAI(id, voiceovers, nones) ==
    /\ AtStage(id, {6})
    /\ LET t == tasks[id]
       IN  /\ t.model = "gpt-5"
           /\ \E outcome \in {"text", "provider_raised"}
                             \cup (IF TRUE \in nones THEN {"none_content"} ELSE {}) :
              \E returned \in
                    IF outcome = "text" THEN {Some(v) : v \in voiceovers}
                    ELSE IF outcome = "provider_raised" THEN {Some(t.cur)}
                    ELSE {None} :
                tasks' = [tasks EXCEPT ![id] =
                    [PipelineReturns(
                         IF outcome = "text" THEN t ELSE LogFailure(t),
                         VoiceoverResult(t.cur, returned, PipelineVoice(t)))
                     EXCEPT !.voiceover = outcome]]
    /\ UNCHANGED <<videos, lock, nextId, response, renderer, s3, render_vars,
                 storage_vars,
                 publish_vars, caller_vars>>

\* binding of positional arguments at a call
BindsPositional(given, declared) == given = declared

\* stage 6 for every other model: BedrockService.add_voiceover_functionality
\* is called with one positional argument more than it declares; the
\* TypeError ("type_error") is caught by the except branch of line 182
AddVoiceoverBedrock(id, voiceovers) ==
    /\ AtStage(id, {6})
    /\ LET t == tasks[id]
           binds == BindsPositional(OrchestratorVoiceoverArgs, BedrockVoiceoverParams)
       IN  /\ t.model # "gpt-5"
           /\ \E returned \in
                 IF binds THEN {Some(v) : v \in voiceovers \cup {t.cur}} ELSE {None} :
                tasks' = [tasks EXCEPT ![id] =
                    [PipelineReturns(
                         IF binds THEN t ELSE LogFailure(t),
                         VoiceoverResult(t.cur, returned, PipelineVoice(t)))
                     EXCEPT !.voiceover = IF binds THEN "text" ELSE "type_error"]]
    /\ UNCHANGED <<videos, lock, nextId, response, renderer, s3, render_vars,
                 storage_vars,
                 publish_vars, caller_vars>>

\* routes.py 48
StoreScript(id) ==
    /\ Driver(id, "store_script")
    /\ DriverUpdate(id, [script_content |-> Some(tasks[id].cur),
                         progress |-> 40], "set_rendering")
    /\ UNCHANGED <<lock, nextId, response, renderer, s3, render_vars,
                 storage_vars,
                 publish_vars, caller_vars>>

\* routes.py 52-57
SetRendering(id) ==
    /\ Driver(id, "set_rendering")
    /\ DriverUpdate(id, RenderingUpdates, "set_uploading")
    /\ UNCHANGED <<lock, nextId, response, renderer, s3, render_vars,
                 storage_vars,
                 publish_vars, caller_vars>>

\* routes.py 70-75
SetUploading(id) ==
    /\ Driver(id, "set_uploading")
    /\ DriverUpdate(id, UploadingUpdates, "call_process_video")
    /\ UNCHANGED <<lock, nextId, response, renderer, s3, render_vars,
                 storage_vars,
                 publish_vars, caller_vars>>

\* routes.py 77: process_video(script_content, video_id, video_metadata) on a
\* method that declares (script_content, video_id): the call raises TypeError
\* before the body of process_video runs
CallProcessVideo(id) ==
    /\ Driver(id, "call_process_video")
    /\ LET called == [tasks[id] EXCEPT !.process_video_calls = @ + 1]
       IN  tasks' = [tasks EXCEPT ![id] =
              IF BindsPositional(DriverRenderArgs, ProcessVideoParams)
              THEN [called EXCEPT !.pc = "in_process_video"]
              ELSE Raise(called, <<"TypeError",
                     "process_video() takes 3 positional arguments but 4 were given">>)]
    /\ UNCHANGED <<videos, lock, nextId, response, renderer, s3, render_vars,
                 storage_vars,
                 publish_vars, caller_vars>>

\* str(e)
ExcStr(err) == err

\* (mutant) the failure update sets the progress back
FailureUpdates_resetting(err) ==
    [status |-> FAILED,
     message |-> "Video generation failed",
     error_details |-> Some(ExcStr(err)),
     progress |-> 0]

\* (mutant) the failure update carries no error_details
FailureUpdates_no_details(err) ==
    [status |-> FAILED,
     message |-> "Video generation failed"]

\* the keyword arguments of the update_video call of the except clause
FailureUpdates(err) ==
    [status |-> FAILED,
     message |-> "Video generation failed",
     error_details |-> Some(ExcStr(err))]

\* routes.py 103-111; when the id is unknown update_video raises inside the
\* handler and the VideoNotFoundError leaves the task
HandleException(id) ==
    /\ Driver(id, "except")
    /\ IF id \in DOMAIN videos
       THEN /\ videos' = update_video(videos, id, FailureUpdates(tasks[id].err))
            /\ tasks' = [tasks EXCEPT ![id] = Finished(@, "done")]
       ELSE /\ videos' = videos
            /\ tasks' = [tasks EXCEPT ![id] = Finished(@, "died")]
    /\ UNCHANGED <<lock, nextId, response, renderer, s3, render_vars,
                 storage_vars,
                 publish_vars, caller_vars>>

\* ------------------------------------------------------------------ Next
DriverStep(id, in) ==
    \/ SetGenerating(id)
    \/ StageRouteError(id)
    \/ StageRaises(id)
    \/ StageReturns(id, in.scripts, in.nones)
    \/ AddVoiceoverOpenAI(id, in.voiceovers, in.nones)
    \/ AddVoiceoverBedrock(id, in.voiceovers)
    \/ StoreScript(id)
    \/ SetRendering(id)
    \/ SetUploading(id)
    \/ CallProcessVideo(id)
    \/ HandleException(id)

\* several jobs, few texts
Next ==
    \/ CreateVideo(MaxJobs, RegistryInputs.models, RegistryInputs.voices)
    \/ DeleteVideo
    \/ GetStats
    \/ \E id \in 1..MaxJobs : DriverStep(id, RegistryInputs)

Spec == Init /\ [][Next]_vars

\* few jobs, many texts, every behaviour of the renderer and of S3
PipelineNext ==
    \/ CreateVideo(MaxPipelineJobs, PipelineInputs.models, PipelineInputs.voices)
    \/ DeleteVideo
    \/ GetStats
    \/ \E id \in 1..MaxPipelineJobs : DriverStep(id, PipelineInputs)

PipelineSpec == PipelineInit /\ [][PipelineNext]_vars

\* the drivers are tasks of the event loop: each one that can take a step
\* eventually takes one
FairSpec ==
    PipelineSpec
    /\ \A id \in 1..MaxPipelineJobs : WF_vars(DriverStep(id, PipelineInputs))

\* many create requests for a model no provider serves: every job fails at
\* its first stage and frees its place
AdmissionNext ==
    \/ CreateVideo(MaxAdmitted, {"nova-pro"}, {"Joanna"})
    \/ \E id \in 1..MaxAdmitted :
          \/ SetGenerating(id)
          \/ StageRouteError(id)
          \/ HandleException(id)

AdmissionSpec == Init /\ [][AdmissionNext]_vars

\* ------------------------------------------------------ renderer adapter
\* how the child process of one _run_manim call ends: it exits 0 and left a
\* video file, exits non-zero, exceeds the timeout, or exits 0 without a
\* video file of more than 1000 bytes
ChildOutcomes == {"ok", "nonzero", "timeout", "no_artifact"}

\* how shutil.copy2 to videos_dir ends
CopyOutcomes == {"ok", "fail"}

\* _find_generated_video found nothing
NoVideoFile == <<"No video file generated by Manim">>

\* the copy raised, or the file is not there afterwards
CopyFailed == <<"Failed to copy video to permanent location">>

\* what _run_manim raises in its thread for an outcome of the child
ThreadError(outcome) ==
    IF outcome = "no_artifact" THEN NoVideoFile ELSE RenderError(outcome)

\* the except clause of process_video:
\* VideoProcessingError("Failed to process video", details=str(e))
ProcessVideoFailed(cause) == <<"Failed to process video">> \o cause

\* VideoProcessor(): an executor with no work and no busy worker
NewVideoProcessor == [queue |-> <<>>, running |-> {}]

\* a call of process_video that has submitted _run_manim to the executor
NewCall == [pc |-> "queued", err |-> <<>>, ret |-> None]

\* (mutant) every video gets the same file name
final_path_fixed(video_id) == <<"videos", 0, ".mp4">>

\* os.path.join(self.videos_dir, f"{video_id}.mp4")
final_path(video_id) == <<"videos", video_id, ".mp4">>

\* os.path.exists(path) for a path of videos_dir on the disk d
PathExists(d, path) ==
    /\ Len(path) = 3
    /\ path[1] = "videos"
    /\ path[3] = ".mp4"
    /\ path[2] \in d.videos_dir

\* (mutant) the finally clause leaves the directory
Cleanup_skipped(d, temp_dir) == d

\* the finally clause of process_video: shutil.rmtree(temp_dir)
Cleanup(d, temp_dir) == [d EXCEPT !.temp_dirs = @ \ {temp_dir}]

\* dependencies.get_video_processor: every request builds its own
\* VideoProcessor, and with it its own ThreadPoolExecutor
GetVideoProcessor ==
    /\ Len(processors) < MaxProcessors
    /\ processors' = Append(processors, NewVideoProcessor)
    /\ UNCHANGED <<videos, lock, tasks, nextId, response, renderer, s3, calls,
                   disk, storage_vars,
                 publish_vars, caller_vars>>

\* process_video up to its await: mkdtemp, then run_in_executor submits
\* _run_manim to the executor of this VideoProcessor
EnterProcessVideo(p) ==
    /\ Len(calls) < MaxRenderCalls
    /\ p \in DOMAIN processors
    /\ LET c == Len(calls) + 1
       IN  /\ calls' = Append(calls, NewCall)
           /\ disk' = [disk EXCEPT !.temp_dirs = @ \cup {c}]
           /\ processors' = [processors EXCEPT ![p].queue = Append(@, c)]
    /\ UNCHANGED <<videos, lock, tasks, nextId, response, renderer, s3,
                   storage_vars,
                 publish_vars, caller_vars>>

\* a worker thread of the executor has no work item
WorkerFree(p) == Cardinality(processors[p].running) < max_workers

\* a free worker of the executor takes the oldest work item: _run_manim
\* writes the script and starts the child process
WorkerTakes(p) ==
    /\ p \in DOMAIN processors
    /\ processors[p].queue # <<>>
    /\ WorkerFree(p)
    /\ LET c == Head(processors[p].queue)
       IN  /\ processors' = [processors EXCEPT ![p].queue = Tail(@),
                                               ![p].running = @ \cup {c}]
           /\ calls' = [calls EXCEPT ![c].pc = "running"]
    /\ UNCHANGED <<videos, lock, tasks, nextId, response, renderer, s3, disk,
                   storage_vars,
                 publish_vars, caller_vars>>

\* subprocess.run returns or raises TimeoutExpired, _find_generated_video
\* looks for the file, and the work item ends: the worker is free again
ChildEnds(p, c, outcome) ==
    /\ p \in DOMAIN processors
    /\ c \in processors[p].running
    /\ calls' = [calls EXCEPT ![c].pc = "thread_done",
                              ![c].err = IF outcome = "ok" THEN <<>>
                                         ELSE ThreadError(outcome)]
    /\ processors' = [processors EXCEPT ![p].running = @ \ {c}]
    /\ UNCHANGED <<videos, lock, tasks, nextId, response, renderer, s3, disk,
                   storage_vars,
                 publish_vars, caller_vars>>

\* process_video after its await: the copy to videos_dir or the except
\* clause, then the finally clause
ResumeProcessVideo(c, copy) ==
    /\ c \in DOMAIN calls
    /\ calls[c].pc = "thread_done"
    /\ LET rendered == calls[c].err = <<>>
           copied == IF rendered /\ copy = "ok"
                     THEN [disk EXCEPT !.videos_dir = @ \cup {c}]
                     ELSE disk
       IN  /\ calls' = [calls EXCEPT ![c] =
                  IF rendered /\ copy = "ok"
                  THEN [@ EXCEPT !.pc = "returned",
                                 !.ret = Some(final_path(c))]
                  ELSE [@ EXCEPT !.pc = "raised",
                                 !.err = ProcessVideoFailed(
                                     IF rendered THEN CopyFailed ELSE @)]]
           /\ disk' = Cleanup(copied, c)
    /\ UNCHANGED <<videos, lock, tasks, nextId, response, renderer, s3,
                   processors, storage_vars,
                 publish_vars, caller_vars>>

\* requests that each obtain a VideoProcessor from get_video_processor and
\* call process_video(script_content, video_id) on it
RenderNext ==
    \/ GetVideoProcessor
    \/ \E p \in 1..MaxProcessors : EnterProcessVideo(p)
    \/ \E p \in 1..MaxProcessors : WorkerTakes(p)
    \/ \E p \in 1..MaxProcessors, c \in 1..MaxRenderCalls,
          outcome \in ChildOutcomes : ChildEnds(p, c, outcome)
    \/ \E c \in 1..MaxRenderCalls, copy \in CopyOutcomes :
          ResumeProcessVideo(c, copy)

RenderSpec == Init /\ [][RenderNext]_vars

\* ------------------------------------------- threads on the registry
\* video ids the threads pass
StorageIds == {1}

\* keyword arguments the threads pass to update_video: those of the driver's
\* rendering update and of its script update
ScriptUpdates == [script_content |-> Some(S_PLAIN), progress |-> 40]
StorageUpdates == {RenderingUpdates, ScriptUpdates}

\* the attributes in the order the calls name them
KeyOrder == <<"status", "message", "script_content", "progress">>

\* updates.items()
Items(updates) == SelectSeq(KeyOrder, LAMBDA k : k \in DOMAIN updates)

StorageOps == {"create_video", "get_video", "update_video", "delete_video"}

\* a thread outside VideoStorage
IdleThread ==
    [pc |-> "idle", op |-> "", nested |-> FALSE, video_id |-> 0,
     updates |-> <<>>, pending |-> <<>>, ret |-> ""]

\* the value of threading.Lock while thread th holds it
Holder(th) == "thread" \o ToString(th)

\* the call returns or raises: the with statement releases the lock
Return(t, ret) == [IdleThread EXCEPT !.ret = ret]

\* the record of a returned call
Returned(t) == [op |-> t.op, video_id |-> t.video_id, updates |-> t.updates]

StartThread ==
    /\ Len(threads) < MaxThreads
    /\ threads' = Append(threads, IdleThread)
    /\ UNCHANGED <<videos, lock, tasks, nextId, response, renderer, s3,
                   render_vars,
                   publish_vars, caller_vars, applied>>

\* a thread calls a method of VideoStorage and reaches its with self._lock
StorageCall(th, op, video_id, updates) ==
    /\ th \in DOMAIN threads
    /\ threads[th].pc = "idle"
    /\ Len(applied) < MaxStorageCalls
    /\ threads' = [threads EXCEPT ![th] =
          [IdleThread EXCEPT !.pc = "acquire", !.op = op,
                             !.video_id = video_id,
                             !.updates = IF op = "update_video" THEN updates
                                         ELSE <<>>]]
    /\ UNCHANGED <<videos, lock, tasks, nextId, response, renderer, s3,
                   render_vars,
                   publish_vars, caller_vars, applied>>

\* (mutant) the with statement does not wait for the lock
LockFree_ignored == TRUE

\* threading.Lock.acquire succeeds only when nobody holds the lock, the
\* calling thread included
LockFree == lock = "free"

\* with self._lock:
Acquire(th) ==
    /\ th \in DOMAIN threads
    /\ threads[th].pc = "acquire"
    /\ LockFree
    /\ lock' = Holder(th)
    /\ threads' = [threads EXCEPT ![th].pc = "locked"]
    /\ UNCHANGED <<videos, tasks, nextId, response, renderer, s3, render_vars,
                   publish_vars, caller_vars, applied>>

InBody(th, op) ==
    /\ th \in DOMAIN threads
    /\ threads[th].pc = "locked"
    /\ threads[th].op = op

\* storage.py 56-67
CreateVideoBody(th) ==
    /\ InBody(th, "create_video")
    /\ LET t == threads[th]
       IN  /\ videos' = StoreVideo(videos, t.video_id,
                            NewVideoInfo(t.video_id, "prompt", t.video_id))
           /\ applied' = Append(applied, Returned(t))
           /\ threads' = [threads EXCEPT ![th] = Return(t, "video_info")]
    /\ lock' = "free"
    /\ UNCHANGED <<tasks, nextId, response, renderer, s3, render_vars, publish_vars, caller_vars>>

\* what delete_video does with the record get_video returned (storage.py
\* 110-117) or with its VideoNotFoundError (119-120)
DeleteAfterGet(th, found) ==
    LET t == threads[th]
    IN  /\ videos' = IF found = None THEN videos
                     ELSE [i \in DOMAIN videos \ {t.video_id} |-> videos[i]]
        /\ disk' = IF found # None /\ found[1].video_path # None
                   THEN [disk EXCEPT !.videos_dir = @ \ {t.video_id}]
                   ELSE disk
        /\ applied' = Append(applied, Returned(t))
        /\ threads' = [threads EXCEPT ![th] =
               Return(t, IF found = None THEN "False" ELSE "True")]
        /\ lock' = "free"
        /\ UNCHANGED <<processors, calls, publish_vars, caller_vars>>

\* storage.py 69-89, called by a thread or by delete_video
GetVideoBody(th) ==
    /\ \/ InBody(th, "get_video")
       \/ InBody(th, "delete_video") /\ threads[th].nested
    /\ LET t == threads[th]
           found == get_video(videos, t.video_id)
       IN  IF t.op = "delete_video"
           THEN DeleteAfterGet(th, found)
           ELSE /\ applied' = Append(applied, Returned(t))
                /\ threads' = [threads EXCEPT ![th] =
                       Return(t, IF found = None THEN "VideoNotFoundError"
                                 ELSE "video_info")]
                /\ lock' = "free"
                /\ UNCHANGED <<videos, render_vars, publish_vars, caller_vars>>
    /\ UNCHANGED <<tasks, nextId, response, renderer, s3>>

\* storage.py 106-108: holding the lock, delete_video calls self.get_video,
\* which reaches its own with self._lock
DeleteVideoBody(th) ==
    /\ InBody(th, "delete_video")
    /\ ~threads[th].nested
    /\ threads' = [threads EXCEPT ![th].pc = "acquire", ![th].nested = TRUE]
    /\ UNCHANGED <<videos, lock, tasks, nextId, response, renderer, s3,
                   render_vars,
                   publish_vars, caller_vars, applied>>

\* storage.py 93-98: the membership test of update_video
UpdateVideoBody(th) ==
    /\ InBody(th, "update_video")
    /\ LET t == threads[th]
       IN  IF t.video_id \in DOMAIN videos
           THEN /\ threads' = [threads EXCEPT ![th].pc = "setattr",
                                              ![th].pending = Items(t.updates)]
                /\ UNCHANGED <<lock, applied>>
           ELSE /\ threads' = [threads EXCEPT ![th] =
                       Return(t, "VideoNotFoundError")]
                /\ applied' = Append(applied, Returned(t))
                /\ lock' = "free"
    /\ UNCHANGED <<videos, tasks, nextId, response, renderer, s3, render_vars, publish_vars, caller_vars>>

\* storage.py 99-101: one round of the loop over updates.items()
SetAttr(th) ==
    /\ th \in DOMAIN threads
    /\ threads[th].pc = "setattr"
    /\ threads[th].pending # <<>>
    /\ LET t == threads[th]
           key == Head(t.pending)
       IN  /\ videos' = [videos EXCEPT ![t.video_id][key] = t.updates[key]]
           /\ threads' = [threads EXCEPT ![th].pending = Tail(@)]
    /\ UNCHANGED <<lock, tasks, nextId, response, renderer, s3, render_vars,
                   publish_vars, caller_vars, applied>>

\* storage.py 102: return video_info
UpdateVideoReturn(th) ==
    /\ th \in DOMAIN threads
    /\ threads[th].pc = "setattr"
    /\ threads[th].pending = <<>>
    /\ applied' = Append(applied, Returned(threads[th]))
    /\ threads' = [threads EXCEPT ![th] = Return(@, "video_info")]
    /\ lock' = "free"
    /\ UNCHANGED <<videos, tasks, nextId, response, renderer, s3, render_vars, publish_vars, caller_vars>>

ThreadStep(th) ==
    \/ \E op \in StorageOps, video_id \in StorageIds,
          updates \in StorageUpdates : StorageCall(th, op, video_id, updates)
    \/ Acquire(th)
    \/ CreateVideoBody(th)
    \/ GetVideoBody(th)
    \/ DeleteVideoBody(th)
    \/ UpdateVideoBody(th)
    \/ SetAttr(th)
    \/ UpdateVideoReturn(th)

\* threads that call the registry at the same time
RegistryNext ==
    \/ StartThread
    \/ \E th \in 1..MaxThreads : ThreadStep(th)

RegistrySpec == Init /\ [][RegistryNext]_vars

\* ------------------------------------------------------------ S3 service
\* how s3_client.upload_file ends in _upload_file_sync: it returns, raises
\* ClientError, raises BotoCoreError, or raises another exception
PutOutcomes == {"ok", "client_error", "connection_error", "other_error"}

\* the S3UploadError upload_video lets out for an outcome of the put:
\* _upload_file_sync turns ClientError and BotoCoreError into S3UploadError,
\* which upload_video re-raises; any other exception is wrapped by line 106
UploadError(outcome) ==
    IF outcome = "client_error" THEN <<"S3 upload failed", "error code">>
    ELSE IF outcome = "connection_error" THEN <<"S3 connection error">>
    ELSE <<"S3 upload failed", "unexpected">>

\* the S3UploadError of line 72
LocalFileNotFound == <<"Local video file not found">>

\* upload_video up to its await: the local file is looked for, then
\* _upload_file_sync is handed to the default executor
EnterUploadVideo(exists) ==
    /\ Len(uploads) < MaxUploads
    /\ uploads' = Append(uploads,
          IF exists THEN [pc |-> "queued", err |-> <<>>, url |-> None]
          ELSE [pc |-> "raised", err |-> LocalFileNotFound, url |-> None])
    /\ UNCHANGED <<videos, lock, tasks, nextId, response, renderer, s3,
                   render_vars, storage_vars, remote, caller_vars>>

\* _upload_file_sync in its thread; a put that returns has stored the object
UploadFileSync(u, outcome) ==
    /\ u \in DOMAIN uploads
    /\ uploads[u].pc = "queued"
    /\ uploads' = [uploads EXCEPT ![u].pc = "thread_done",
                                  ![u].err = IF outcome = "ok" THEN <<>>
                                             ELSE UploadError(outcome)]
    /\ remote' = IF outcome = "ok" THEN remote \cup {u} ELSE remote
    /\ UNCHANGED <<videos, lock, tasks, nextId, response, renderer, s3,
                   render_vars, storage_vars, caller_vars>>

\* upload_video after its await: the public URL is returned, or the
\* exception of the thread leaves the call
ResumeUploadVideo(u) ==
    /\ u \in DOMAIN uploads
    /\ uploads[u].pc = "thread_done"
    /\ uploads' = [uploads EXCEPT ![u] =
          IF @.err = <<>>
          THEN [@ EXCEPT !.pc = "returned", !.url = Some(get_public_url(u))]
          ELSE [@ EXCEPT !.pc = "raised"]]
    /\ UNCHANGED <<videos, lock, tasks, nextId, response, renderer, s3,
                   render_vars, storage_vars, remote, caller_vars>>

\* callers of upload_video(video_path, video_id, metadata)
UploadNext ==
    \/ \E exists \in BOOLEAN : EnterUploadVideo(exists)
    \/ \E u \in 1..MaxUploads, outcome \in PutOutcomes :
          UploadFileSync(u, outcome)
    \/ \E u \in 1..MaxUploads : ResumeUploadVideo(u)

UploadSpec == Init /\ [][UploadNext]_vars

\* ------------------------------------------ a script on the registry
\* settings.VIDEO_RETENTION_DAYS
VIDEO_RETENTION_DAYS == 7

\* the ids the script creates, asks for and updates: those its first three
\* create requests draw, whether they were drawn yet or not
CallerIds == {1, 2, 3}

\* ids of objects that other deployments left in the bucket: one that a
\* local record may share and one that no local record has
RemoteIds == {3, 4}

\* the status argument of list_videos
StatusFilters == {None, Some(QUEUED), Some(RENDERING_VIDEO), Some(COMPLETED)}

\* the script is not blocked inside a call and has calls left
CanCall == lock = "free" /\ call.n < MaxCalls

\* the record of the call that was just made, at the time it was made
Called(op, video_id, updates, ret) ==
    [n |-> call.n + 1, at |-> clock, op |-> op, video_id |-> video_id,
     updates |-> updates, status |-> None, ret |-> ret]

\* list(self._videos.values()): the records in insertion order, which is the
\* order of the ids
memory_videos(vs) == [i \in 1..Cardinality(DOMAIN vs) |-> vs[i]]

\* lines 131-141 of list_videos: S3VideoService defines no list_all_videos,
\* the AttributeError of the attribute lookup is caught by except Exception
\* and s3_videos stays []
s3_videos(bucket, memory_video_ids) == <<>>

\* where sorted(..., reverse=True) puts v among elements already in place:
\* behind every element whose key is not smaller (the sort is stable)
RECURSIVE InsertDesc(_, _)
InsertDesc(v, sorted) ==
    IF sorted = <<>> THEN <<v>>
    ELSE IF Head(sorted).created_at >= v.created_at
         THEN <<Head(sorted)>> \o InsertDesc(v, Tail(sorted))
         ELSE <<v>> \o sorted

\* sorted(all_videos, key=lambda x: x.created_at, reverse=True)
RECURSIVE SortedByCreatedAt(_)
SortedByCreatedAt(all_videos) ==
    IF all_videos = <<>> THEN <<>>
    ELSE InsertDesc(all_videos[Len(all_videos)],
                    SortedByCreatedAt(SubSeq(all_videos, 1,
                                             Len(all_videos) - 1)))

\* if status: all_videos = [v for v in all_videos if v.status == status]
WithStatus(all_videos, status) ==
    IF status # None
    THEN SelectSeq(all_videos, LAMBDA v : v.status = status[1])
    ELSE all_videos

\* storage.py 122-155
list_videos(vs, bucket, status) ==
    SortedByCreatedAt(
        WithStatus(memory_videos(vs) \o s3_videos(bucket, DOMAIN vs), status))

\* the script creates a video the way the route does, with a fresh uuid4
CallCreateVideo ==
    /\ CanCall
    /\ nextId \in CallerIds
    /\ videos' = StoreVideo(videos, nextId,
                            NewVideoInfo(nextId, "prompt", clock))
    /\ nextId' = nextId + 1
    /\ call' = Called("create_video", nextId, <<>>, "video_info")
    /\ clock' = clock + 1
    /\ UNCHANGED <<lock, tasks, response, renderer, s3, render_vars,
                   storage_vars, publish_vars, listed>>

\* storage.get_video(video_id)
CallGetVideo(video_id) ==
    /\ CanCall
    /\ call' = Called("get_video", video_id, <<>>,
                      IF get_video(videos, video_id) = None
                      THEN "VideoNotFoundError" ELSE "video_info")
    /\ clock' = clock + 1
    /\ UNCHANGED <<videos, lock, tasks, nextId, response, renderer, s3,
                   render_vars, storage_vars, publish_vars, listed>>

\* storage.update_video(video_id, **updates)
CallUpdateVideo(video_id, updates) ==
    /\ CanCall
    /\ IF video_id \in DOMAIN videos
       THEN /\ videos' = update_video(videos, video_id, updates)
            /\ call' = Called("update_video", video_id, updates, "video_info")
       ELSE /\ videos' = videos
            /\ call' = Called("update_video", video_id, updates,
                              "VideoNotFoundError")
    /\ clock' = clock + 1
    /\ UNCHANGED <<lock, tasks, nextId, response, renderer, s3, render_vars,
                   storage_vars, publish_vars, listed>>

\* await storage.list_videos(status): the coroutine reaches no await that
\* suspends it
CallListVideos(status) ==
    /\ CanCall
    /\ listed' = Some(list_videos(videos, remote, status))
    /\ call' = [Called("list_videos", 0, <<>>, "list") EXCEPT
                    !.status = status]
    /\ clock' = clock + 1
    /\ UNCHANGED <<videos, lock, tasks, nextId, response, renderer, s3,
                   render_vars, storage_vars, publish_vars>>

\* cutoff_date of cleanup_old_videos
cutoff_date(now) == now - VIDEO_RETENTION_DAYS

\* the list cleanup_old_videos builds under the lock
videos_to_delete(vs, now) ==
    {i \in DOMAIN vs : vs[i].created_at < cutoff_date(now)}

\* storage.cleanup_old_videos(): with nothing to delete it returns None; else
\* its first delete_video takes the lock and calls get_video, which waits
\* for the same lock, so the call never returns
CallCleanupOldVideos ==
    /\ CanCall
    /\ IF videos_to_delete(videos, clock) = {}
       THEN /\ call' = Called("cleanup_old_videos", 0, <<>>, "None")
            /\ lock' = lock
       ELSE /\ call' = Called("cleanup_old_videos", 0, <<>>, "")
            /\ lock' = "delete_video"
    /\ clock' = clock + 1
    /\ UNCHANGED <<videos, tasks, nextId, response, renderer, s3, render_vars,
                   storage_vars, publish_vars, listed>>

\* the script waits for the retention period between two calls
Sleep ==
    /\ lock = "free"
    /\ clock + VIDEO_RETENTION_DAYS <= MaxDays
    /\ clock' = clock + VIDEO_RETENTION_DAYS
    /\ UNCHANGED <<videos, lock, tasks, nextId, response, renderer, s3,
                   render_vars, storage_vars, publish_vars, listed, call>>

\* another deployment puts an object into the bucket
PutObject(video_id) ==
    /\ video_id \notin remote
    /\ remote' = remote \cup {video_id}
    /\ UNCHANGED <<videos, lock, tasks, nextId, response, renderer, s3,
                   render_vars, storage_vars, uploads, caller_vars>>

CallerNext ==
    \/ CallCreateVideo
    \/ \E video_id \in CallerIds : CallGetVideo(video_id)
    \/ \E video_id \in CallerIds, updates \in StorageUpdates :
          CallUpdateVideo(video_id, updates)
    \/ \E status \in StatusFilters : CallListVideos(status)
    \/ CallCleanupOldVideos
    \/ Sleep
    \/ \E video_id \in RemoteIds : PutObject(video_id)

CallerSpec == Init /\ [][CallerNext]_vars

\* ---------------------------------------------------------------- claims
IsTerminal(id) == id \in DOMAIN videos /\ videos[id].status \in TerminalStatuses

\* C1: once the status of a record is completed, completed_without_s3 or
\* failed, no step changes it: every later get_video that finds the record
\* returns the same status.
C1_TerminalAbsorbing ==
    [][\A id \in DOMAIN videos :
          (videos[id].status \in TerminalStatuses
           /\ get_video(videos', id) # None)
          => get_video(videos', id)[1].status = videos[id].status]_vars

\* three records are terminal: the third was admitted, driven and failed
\* while one of the first two was already terminal
C1_Witness ==
    /\ DOMAIN videos = {1, 2, 3}
    /\ \A id \in DOMAIN videos : IsTerminal(id) /\ tasks[id].pc = "done"

AllowedTransitions ==
    {<<QUEUED, GENERATING_SCRIPT>>, <<GENERATING_SCRIPT, RENDERING_VIDEO>>,
     <<RENDERING_VIDEO, UPLOADING_TO_S3>>, <<UPLOADING_TO_S3, COMPLETED>>,
     <<UPLOADING_TO_S3, COMPLETED_WITHOUT_S3>>}
    \cup {<<x, FAILED>> : x \in {QUEUED, GENERATING_SCRIPT, RENDERING_VIDEO,
                                 UPLOADING_TO_S3}}

\* C2: a record appears with status queued, and every change of a record's
\* status is queued->generating_script, generating_script->rendering_video,
\* rendering_video->uploading_to_s3, uploading_to_s3->completed,
\* uploading_to_s3->completed_without_s3 or non-terminal->failed.
C2_StatusTransitions ==
    [][\A id \in DOMAIN videos' :
          IF id \notin DOMAIN videos
          THEN videos'[id].status = QUEUED
          ELSE \/ videos'[id].status = videos[id].status
               \/ <<videos[id].status, videos'[id].status>> \in AllowedTransitions]_vars

\* a record that went through all four non-terminal statuses and then failed
C2_Witness ==
    \E id \in DOMAIN videos :
        /\ videos[id].status = FAILED
        /\ videos[id].progress = 85
        /\ videos[id].script_content # None

\* the number of active records as the claim counts them
ActiveCount ==
    Cardinality({i \in DOMAIN videos :
        videos[i].status \in {QUEUED, GENERATING_SCRIPT, RENDERING_VIDEO,
                              UPLOADING_TO_S3}})

\* C3: a create request answered while MAX_CONCURRENT_VIDEOS records are
\* active is answered 429 and inserts nothing; a create request answered
\* while fewer are active (so after an active job became terminal) is
\* accepted and inserts one new queued record; nothing else inserts a record.
C3_Admission ==
    [][(response' # response \/ DOMAIN videos' # DOMAIN videos) =>
          /\ ActiveCount = MAX_CONCURRENT_VIDEOS =>
                /\ response'.code = 429
                /\ videos' = videos
          /\ ActiveCount < MAX_CONCURRENT_VIDEOS =>
                /\ response'.code = 200
                /\ response'.video_id \notin DOMAIN videos
                /\ DOMAIN videos' = DOMAIN videos \cup {response'.video_id}
                /\ videos'[response'.video_id].status = QUEUED
                /\ \A i \in DOMAIN videos : videos'[i] = videos[i]]_vars

\* the third request was accepted after one of two active jobs had become
\* terminal, and the request after it was rejected at two active jobs
C3_Witness ==
    /\ 3 \in DOMAIN videos
    /\ ActiveCount = MAX_CONCURRENT_VIDEOS
    /\ response.code = 429

\* C4: under fair scheduling of the drivers, every record that is created
\* and not deleted eventually has a terminal status.
C4_EveryJobTerminates ==
    \A id \in 1..MaxPipelineJobs :
        [](id \in DOMAIN videos => <>(id \notin DOMAIN videos \/ IsTerminal(id)))

\* the six stages were called in order, once each
AllStagesCalled(t) == t.stages = <<1, 2, 3, 4, 5, 6>>

\* C5: a finished job whose six stages all succeeded, in a deployment whose
\* renderer and upload succeed, has status completed, progress 100, a
\* video_path and the s3_url derived from its id.
C5_EndToEndSuccess ==
    \A id \in DOMAIN tasks :
        (/\ tasks[id].pc = "done"
         /\ AllStagesCalled(tasks[id])
         /\ tasks[id].failed = {}
         /\ renderer = "ok"
         /\ s3 = "ok")
        => /\ videos[id].status = COMPLETED
           /\ videos[id].progress = 100
           /\ videos[id].video_path # None
           /\ videos[id].s3_url = Some(get_public_url(id))

\* C6: a finished job whose pipeline returned a script, in a deployment
\* whose renderer succeeds and whose upload fails, has status
\* completed_without_s3, a video_path and no s3_url.
C6_BestEffortPublish ==
    \A id \in DOMAIN tasks :
        (/\ tasks[id].pc = "done"
         /\ AllStagesCalled(tasks[id])
         /\ renderer = "ok"
         /\ s3 = "fail")
        => /\ videos[id].status = COMPLETED_WITHOUT_S3
           /\ videos[id].video_path # None
           /\ videos[id].s3_url = None

\* the errors a call of _llm raises, as generate_video_content re-raises them
StageErrors ==
    {PipelineFailed(c) :
        c \in {ProviderError("openai"), ProviderError("bedrock"),
               <<"Unsupported model">>,
               <<"Bedrock generation failed", "Unsupported model">>}}

\* C7: when the call of stage k in 1..3 raised, the stages called are exactly
\* 1..k, process_video is never called, no script is stored, the record goes
\* from generating_script to failed and its error_details is the error that
\* stage raised.
C7_LoadBearingStages ==
    /\ [](\A id \in DOMAIN tasks : \A k \in tasks[id].failed \cap {1, 2, 3} :
            /\ tasks[id].stages = [i \in 1..k |-> i]
            /\ tasks[id].process_video_calls = 0
            /\ tasks[id].pc \in {"except", "done"}
            /\ videos[id].script_content = None
            /\ tasks[id].pc = "except" =>
                  /\ videos[id].status = GENERATING_SCRIPT
                  /\ tasks[id].err \in StageErrors
            /\ tasks[id].pc = "done" =>
                  /\ videos[id].status = FAILED
                  /\ videos[id].error_details \in {Some(e) : e \in StageErrors})
    /\ [][\A id \in DOMAIN tasks :
            (tasks[id].failed \cap {1, 2, 3} # {}
             /\ tasks[id].pc = "except" /\ tasks'[id].pc = "done")
            => videos'[id].error_details = Some(tasks[id].err)]_vars

\* stage 3 raised after stages 1 and 2 had returned, and the job has failed
C7_Witness ==
    \E id \in DOMAIN tasks :
        /\ tasks[id].failed = {3}
        /\ tasks[id].pc = "done"
        /\ videos[id].status = FAILED

\* C8: when the call of stage 4 or 5 raised, that error does not reach the
\* except clause of the driver and is not the error_details of the record.
C8_BestEffortValidation ==
    \A id \in DOMAIN tasks :
        tasks[id].failed \cap {4, 5} # {}
        => /\ tasks[id].pc = "except" => tasks[id].err \notin StageErrors
           /\ tasks[id].pc = "done" =>
                 videos[id].error_details \notin {Some(e) : e \in StageErrors}

\* the lines of `final` that are neither voiceover imports nor a speech
\* service initialisation
WithoutNarration(final) ==
    SelectSeq(final, LAMBDA l :
        l \notin {T_VO_IMPORT, T_POLLY_IMPORT} \cup SpeechInits)

\* `final` is `script5` with the scaffold applied: both voiceover imports,
\* every Scene class a VoiceoverScene class, a speech service initialisation
\* right after every construct line, and nothing else changed
IsScaffoldOf(script5, final) ==
    /\ HasVoiceoverImport(final)
    /\ T_POLLY_IMPORT \in Range(final)
    /\ T_CLASS_SCENE \notin Range(final)
    /\ \A i \in DOMAIN final :
          final[i] = T_CONSTRUCT => i < Len(final) /\ final[i + 1] \in SpeechInits
    /\ WithoutNarration(final) = SceneToVoiceoverScene(script5)

\* `final` has both voiceover imports and VoiceoverScene classes only, and
\* no speech service initialisation that `script5` did not have
IsAugmentedOf(script5, final) ==
    /\ HasVoiceoverImport(final)
    /\ T_POLLY_IMPORT \in Range(final)
    /\ T_CLASS_SCENE \notin Range(final)
    /\ Range(final) \cap SpeechInits = Range(script5) \cap SpeechInits

\* the pipeline has returned after a failure of stage 6
FellBack(t) == t.pc = "store_script" /\ 6 \in t.failed

\* C9 as stated: whenever stage 6 failed, the script the pipeline returns is
\* the stage-5 script with the scaffold applied.
C9_ScaffoldOnEveryFailure ==
    \A id \in DOMAIN tasks :
        FellBack(tasks[id]) => IsScaffoldOf(tasks[id].script5, tasks[id].cur)

\* C9 (amended): a failure of stage 6 never reaches the except clause of the
\* driver, and process_video is called with a non-empty script.  When the
\* failure reaches the orchestrator (the argument mismatch of the Bedrock
\* call, an OpenAI message without content) the pipeline returns the stage-5
\* script with the scaffold applied; when the OpenAI provider catches its own
\* failure the pipeline returns a script with the voiceover imports and
\* VoiceoverScene classes, without a speech service initialisation.
C9_NarrationFallback ==
    \A id \in DOMAIN tasks :
        LET t == tasks[id]
        IN  /\ (6 \in t.failed /\ t.pc = "except") => t.process_video_calls = 1
            /\ t.pc = "call_process_video" =>
                  /\ t.cur # <<>>
                  /\ videos[id].script_content = Some(t.cur)
            /\ (FellBack(t) /\ t.voiceover \in {"type_error", "none_content"})
                  => IsScaffoldOf(t.script5, t.cur)
            /\ (FellBack(t) /\ t.voiceover = "provider_raised")
                  => /\ IsAugmentedOf(t.script5, t.cur)
                     /\ t.cur # <<>>

\* the OpenAI provider caught its own failure at stage 6 of a job whose
\* stage 5 returned a script with a Scene class and a construct method
C9_Witness ==
    \E id \in DOMAIN tasks :
        /\ FellBack(tasks[id])
        /\ tasks[id].voiceover = "provider_raised"
        /\ tasks[id].script5 = S_PLAIN

\* C10: a finished job that reached the render call, in a deployment whose
\* renderer exits non-zero or exceeds the timeout, has status failed, no
\* s3_url, and error_details carrying the renderer's error.
C10_RenderFailure ==
    \A id \in DOMAIN tasks :
        (/\ tasks[id].pc = "done"
         /\ tasks[id].process_video_calls = 1
         /\ renderer \in {"nonzero", "timeout"})
        => /\ videos[id].status = FAILED
           /\ videos[id].s3_url = None
           /\ videos[id].error_details # None
           /\ Range(RenderError(renderer)) \subseteq Range(videos[id].error_details[1])

\* a call of process_video has returned or raised
Exited(c) == c \in DOMAIN calls /\ calls[c].pc \in {"returned", "raised"}

InFlight(id) == id \in DOMAIN tasks /\ tasks[id].pc \notin {"done", "died"}

\* the driver of job id has ended and no exception left it
EndedQuietly(id) == id \in DOMAIN tasks /\ tasks[id].pc = "done"

\* C12: when DELETE /videos/{id} is handled while a driver is in flight, the
\* driver still comes to its end and no error leaves it: each update it
\* attempts on the deleted record does nothing.
C12_DeleteDuringFlight ==
    \A id \in 1..MaxPipelineJobs :
        [](lock = "delete_video" /\ InFlight(id) => <>EndedQuietly(id))

\* C13: every delete_video call returns, the first one on an existing id
\* with True and the next with False: a thread inside delete_video never
\* waits for the registry lock while it holds that lock itself.
C13_IdempotentDelete ==
    \A th \in DOMAIN threads :
        threads[th].op = "delete_video" /\ threads[th].pc = "acquire"
        => lock # Holder(th)

\* the record of id after one more returned call, applied as a whole
ApplyReturned(v, e, id) ==
    IF e.video_id # id THEN v
    ELSE IF e.op = "create_video" THEN Some(NewVideoInfo(id, "prompt", id))
    ELSE IF e.op = "delete_video" THEN None
    ELSE IF e.op = "update_video" /\ v # None
         THEN Some(MergeUpdates(v[1], e.updates))
    ELSE v

\* the record of id after the calls of log, run one after the other
RECURSIVE Replay(_, _)
Replay(log, id) ==
    IF log = <<>> THEN None
    ELSE ApplyReturned(Replay(SubSeq(log, 1, Len(log) - 1), id),
                       log[Len(log)], id)

\* no thread is between taking and releasing the lock
Quiescent == \A th \in DOMAIN threads : threads[th].pc \notin {"locked", "setattr"}

\* C14: update_video calls of several threads on one record are serialized:
\* whenever no call is inside its locked section, every record is what the
\* returned calls produce when they run one after the other in the order of
\* their return, so no returned update is lost, in whole or in part.
C14_NoLostUpdate ==
    Quiescent => \A id \in StorageIds : get_video(videos, id) = Replay(applied, id)

\* two writers on one record at once: one has written part of its fields,
\* the other waits for the lock with different fields, and an update of the
\* record has already returned
C14_Witness ==
    \E a, b \in DOMAIN threads :
        /\ a # b
        /\ threads[a].pc = "setattr"
        /\ threads[a].pending # <<>>
        /\ threads[a].pending # Items(threads[a].updates)
        /\ threads[b].pc = "acquire"
        /\ threads[b].op = "update_video"
        /\ threads[b].video_id = threads[a].video_id
        /\ DOMAIN threads[b].updates # DOMAIN threads[a].updates
        /\ \E i \in DOMAIN applied :
              /\ applied[i].op = "update_video"
              /\ applied[i].video_id = threads[a].video_id
              /\ Replay(SubSeq(applied, 1, i), threads[a].video_id) # None

\* the statuses a record has after its render
PostRenderStatuses == {UPLOADING_TO_S3, COMPLETED, COMPLETED_WITHOUT_S3}

\* C15: in every state, a record whose status is uploading_to_s3, completed
\* or completed_without_s3 has its video_path set, and a record whose
\* video_path is set has one of these statuses, or is failed in a job whose
\* render call was made.
C15_PathIffPostRender ==
    \A id \in DOMAIN videos :
        /\ videos[id].status \in PostRenderStatuses
           => videos[id].video_path # None
        /\ videos[id].video_path # None
           => \/ videos[id].status \in PostRenderStatuses
              \/ /\ videos[id].status = FAILED
                 /\ tasks[id].process_video_calls > 0

\* the process_video calls whose renderer child process is executing
Executing == {c \in DOMAIN calls : calls[c].pc = "running"}

\* C16: over all calls of process_video in the process, at most max_workers
\* renderer child processes execute at the same time; a call made while that
\* many execute stays in the queue.
C16_RenderPoolBound == Cardinality(Executing) <= max_workers

\* C17: the driver calls process_video only while the status of its record is
\* rendering_video, and the status of a record is uploading_to_s3 only when
\* the render call of its job has been made.
C17_DriverOrdering ==
    \A id \in DOMAIN tasks \cap DOMAIN videos :
        /\ tasks[id].pc = "call_process_video"
           => videos[id].status = RENDERING_VIDEO
        /\ videos[id].status = UPLOADING_TO_S3
           => tasks[id].process_video_calls > 0

\* C18: in every job the stages are called in the order 1 to 6, each at most
\* once; a stage after the first is called only when the stage before it has
\* returned, and it is given what that stage returned.
C18_StageOrdering ==
    /\ [](\A id \in DOMAIN tasks :
            tasks[id].stages = [k \in 1..Len(tasks[id].stages) |-> k])
    /\ [][\A id \in DOMAIN tasks :
            tasks'[id].stages # tasks[id].stages
            => LET k == Len(tasks[id].stages) + 1
               IN  /\ tasks'[id].stages = Append(tasks[id].stages, k)
                   /\ k <= 6
                   /\ tasks[id].stage = k
                   /\ tasks'[id].input = k - 1
                   /\ k > 1 => (k - 1) \notin tasks[id].failed]_vars

\* all six stages of a job were called, the sixth on the script the fifth
\* returned, and the pipeline has returned
C18_Witness ==
    \E id \in DOMAIN tasks :
        /\ tasks[id].pc = "store_script"
        /\ tasks[id].stages = <<1, 2, 3, 4, 5, 6>>
        /\ tasks[id].script5 # <<>>
        /\ tasks[id].failed = {}
        /\ tasks[id].input = 5

\* C19: in every job in which stage 2 has been called, the model selector
\* stage 2 was called under differs from the one stage 1 was called under.
C19_CrossModelReview ==
    \A id \in DOMAIN tasks :
        tasks[id].pc = "pipeline" /\ Len(tasks[id].stages) >= 2
        => StageModel(2, tasks[id].model) # StageModel(1, tasks[id].model)

\* the job failed in stage 1 and no later stage was called
FailedAtStage1(t) == t.pc = "except" /\ t.stages = <<1>> /\ t.failed = {1}

\* C20: a job whose selector is in no branch of the routing fails in stage 1
\* with the unsupported-model error, and a job whose selector the routing
\* accepts never fails as unsupported: its provider can serve the selector.
C20_UnknownModel ==
    \A id \in DOMAIN tasks :
        /\ tasks[id].pc = "except" /\ Route(tasks[id].model) = "unsupported"
           => /\ FailedAtStage1(tasks[id])
              /\ tasks[id].err = PipelineFailed(<<"Unsupported model">>)
        /\ FailedAtStage1(tasks[id])
           /\ "Unsupported model" \in Range(tasks[id].err)
           => Route(tasks[id].model) = "unsupported"

\* C21: upload_video never raises to its caller: whatever the put does and
\* whether or not the local file is there, the call ends by returning.
C21_PublishNeverRaises ==
    \A u \in DOMAIN uploads : uploads[u].pc # "raised"

\* C22: the progress of every record is an integer from 0 to 100, no step
\* lowers it, and the step that makes a record failed leaves it as it was.
C22_ProgressMonotone ==
    /\ [](\A id \in DOMAIN videos : videos[id].progress \in 0..100)
    /\ [][\A id \in DOMAIN videos \cap DOMAIN videos' :
            /\ videos'[id].progress >= videos[id].progress
            /\ videos'[id].status = FAILED /\ videos[id].status # FAILED
               => videos'[id].progress = videos[id].progress]_vars

\* a job failed after its uploading update: the record is failed and still
\* shows the progress of that update
C22_Witness ==
    \E id \in DOMAIN videos :
        videos[id].status = FAILED /\ videos[id].progress = 85

\* C23: in every state a record has error_details exactly when its status is
\* failed.
C23_ErrorDetailIffFailed ==
    \A id \in DOMAIN videos :
        videos[id].error_details # None <=> videos[id].status = FAILED

\* one job has failed and its record carries the message of the exception
C23_Witness ==
    \E id \in DOMAIN videos :
        /\ videos[id].status = FAILED
        /\ videos[id].error_details # None
        /\ videos[id].error_details[1] # <<>>

\* publish succeeded for job id: a call of upload_video for it returned a URL
PublishSucceeded(id) ==
    id \in DOMAIN uploads /\ uploads[id].pc = "returned"

C25_UnknownId ==
    [][(call'.n # call.n /\ call'.op \in {"get_video", "update_video"}) =>
          LET id == call'.video_id
          IN  IF id \notin DOMAIN videos
              THEN call'.ret = "VideoNotFoundError" /\ videos' = videos
              ELSE /\ call'.ret = "video_info"
                   /\ DOMAIN videos' = DOMAIN videos
                   /\ \A i \in DOMAIN videos \ {id} : videos'[i] = videos[i]
                   /\ \A f \in DOMAIN videos[id] :
                         videos'[id][f] =
                             IF f \in DOMAIN call'.updates
                             THEN call'.updates[f] ELSE videos[id][f]]_vars

\* an update_video of an id without a record has just raised, next to a
\* record an earlier update_video has merged into and a record that is as
\* it was created
C25_Witness ==
    /\ call.op = "update_video"
    /\ call.ret = "VideoNotFoundError"
    /\ \E i, j \in DOMAIN videos :
          /\ videos[i] = MergeUpdates(NewVideoInfo(i, "prompt", i - 1),
                                      RenderingUpdates)
          /\ videos[j] = NewVideoInfo(j, "prompt", j - 1)

\* the local records in one of the given statuses
InStatus(statuses) == {i \in DOMAIN videos : videos[i].status \in statuses}

\* C26: get_active_video_count returns the number of local records that are
\* queued, generating, rendering or uploading: every record is counted
\* except those completed, completed without S3 or failed
C26_ActiveCount ==
    /\ get_active_video_count(videos) =
           Cardinality(InStatus({QUEUED})) +
           Cardinality(InStatus({GENERATING_SCRIPT})) +
           Cardinality(InStatus({RENDERING_VIDEO})) +
           Cardinality(InStatus({UPLOADING_TO_S3}))
    /\ get_active_video_count(videos) =
           Cardinality(DOMAIN videos) -
           Cardinality(InStatus({COMPLETED, COMPLETED_WITHOUT_S3, FAILED}))

\* a failed record next to one that is uploading and one that is queued
C26_Witness ==
    /\ InStatus({FAILED}) # {}
    /\ InStatus({UPLOADING_TO_S3}) # {}
    /\ InStatus({QUEUED}) # {}
    /\ get_active_video_count(videos) = 2

\* the ids list(status) has to return for the records vs and the objects of
\* the bucket: a remote-only artifact counts as a completed record
MergedIds(vs, bucket, status) ==
    {i \in DOMAIN vs : status = None \/ vs[i].status = status[1]}
    \cup {i \in bucket \ DOMAIN vs : status = None \/ status[1] = COMPLETED}

\* C27: list_videos returns every local record and every remote-only
\* artifact (as a completed record) that passes the status filter, each id
\* once, the local record where there is one, newest first
C27_ListingMerge ==
    [][(call'.n # call.n /\ call'.op = "list_videos") =>
          LET L == listed'[1]
          IN  /\ {L[k].video_id : k \in DOMAIN L} =
                     MergedIds(videos, remote, call'.status)
              /\ \A k, l \in DOMAIN L :
                     /\ k # l => L[k].video_id # L[l].video_id
                     /\ k < l => L[k].created_at >= L[l].created_at
              /\ \A k \in DOMAIN L :
                     IF L[k].video_id \in DOMAIN videos
                     THEN L[k] = videos[L[k].video_id]
                     ELSE L[k].status = COMPLETED]_vars

C29_RetentionSweep ==
    call.op = "cleanup_old_videos" =>
        /\ call.ret = "None"
        /\ \A i \in DOMAIN videos :
              videos[i].created_at >= cutoff_date(call.at)

\* the child of call c has exited zero and left a qualifying video file, and
\* process_video resumes in this step
ResumesRendered(c) ==
    /\ c \in DOMAIN calls
    /\ calls[c].pc = "thread_done"
    /\ calls[c].err = <<>>
    /\ calls'[c].pc # "thread_done"

\* process_video returns the path of videos_dir named after the video id of
\* call c, and the file is there
ReturnsFinalPath(c) ==
    /\ calls'[c].pc = "returned"
    /\ calls'[c].ret # None
    /\ calls'[c].ret[1][2] = c
    /\ PathExists(disk', calls'[c].ret[1])

\* C30 as stated: whenever the child exited zero and left a qualifying
\* video file, process_video returns the path in videos_dir named after the
\* video id, and the file exists when it returns
C30_RenderResult ==
    [][\A c \in 1..MaxRenderCalls :
          ResumesRendered(c) => ReturnsFinalPath(c)]_vars

\* C30 amended: process_video returns only after a child that exited zero
\* and left a qualifying video file, and then it returns the path in
\* videos_dir named after the video id, where the file exists; when the copy
\* to videos_dir fails it raises instead and returns no path
C30_RenderResultAmended ==
    [][\A c \in DOMAIN calls :
          /\ (calls[c].pc # "returned" /\ calls'[c].pc = "returned") =>
                ResumesRendered(c) /\ ReturnsFinalPath(c)
          /\ (ResumesRendered(c) /\ calls'[c].pc # "returned") =>
                /\ calls'[c].pc = "raised"
                /\ calls'[c].err = ProcessVideoFailed(CopyFailed)
                /\ calls'[c].ret = None]_vars

\* one call has returned its path and the file is on disk, another whose
\* child also exited zero has raised because the copy failed
C30_Witness ==
    /\ \E c \in DOMAIN calls :
          /\ calls[c].pc = "returned"
          /\ calls[c].ret = Some(<<"videos", c, ".mp4">>)
          /\ c \in disk.videos_dir
    /\ \E c \in DOMAIN calls :
          /\ calls[c].pc = "raised"
          /\ calls[c].err = ProcessVideoFailed(CopyFailed)

\* C31: when the pipeline returns a script whose narration scaffold the
\* fallback of stage 6 built, every speech service initialisation in it is
\* bound to the voice the job was requested with
C31_VoiceBinding ==
    \A id \in DOMAIN tasks :
        LET t == tasks[id]
        IN  (t.pc = "store_script"
             /\ t.voiceover \in {"type_error", "none_content"}) =>
                Range(t.cur) \cap SpeechInits \subseteq {SpeechInit(t.voice)}

RunningDrivers == {id \in DOMAIN tasks : InFlight(id)}

CheckpointsOf(status) ==
    IF status = QUEUED THEN {0}
    ELSE IF status = GENERATING_SCRIPT THEN {25, 40}
    ELSE IF status = RENDERING_VIDEO THEN {50}
    ELSE IF status = UPLOADING_TO_S3 THEN {85}
    ELSE IF status \in {COMPLETED, COMPLETED_WITHOUT_S3} THEN {100}
    ELSE 0..99

\* C34: the progress of every record is a checkpoint of its status: 0 when
\* queued, 25 or 40 when generating, 50 when rendering, 85 when uploading,
\* 100 when completed with or without S3, and 100 in no other status
C34_ProgressCheckpoints ==
    \A id \in DOMAIN videos :
        videos[id].progress \in CheckpointsOf(videos[id].status)

\* the script has been stored (progress 40) and the status is still
\* generating
C34_Witness ==
    \E id \in DOMAIN videos :
        /\ videos[id].status = GENERATING_SCRIPT
        /\ videos[id].progress = 40
        /\ videos[id].script_content # None

\* C35: script_content is None while the record is queued and while the
\* pipeline of its driver has not returned; it is set in every record that
\* is rendering, uploading or completed; and once set it keeps its value
C35_ScriptContent ==
    /\ [](\A id \in DOMAIN videos :
            /\ (videos[id].status = QUEUED
                \/ tasks[id].pc \in {"start", "pipeline"}) =>
                   videos[id].script_content = None
            /\ videos[id].status \in {RENDERING_VIDEO, UPLOADING_TO_S3,
                                      COMPLETED, COMPLETED_WITHOUT_S3} =>
                   videos[id].script_content # None)
    /\ [][\A id \in DOMAIN videos \cap DOMAIN videos' :
             videos[id].script_content # None =>
                 videos'[id].script_content = videos[id].script_content]_vars

\* a record failed after its script was stored and still holds the script;
\* the pipeline had returned the script of stage 5 with the scaffold
C35_Witness ==
    \E id \in DOMAIN videos :
        /\ videos[id].status = FAILED
        /\ videos[id].progress = 85
        /\ videos[id].script_content # None
        /\ videos[id].script_content[1] # <<>>

\* C36: the step that makes a record failed changes the status, the message
\* and the error_details of that record and nothing else in the registry
C36_FailureFrame ==
    [][\A id \in DOMAIN videos :
          (videos[id].status # FAILED /\ id \in DOMAIN videos'
           /\ videos'[id].status = FAILED) =>
              /\ DOMAIN videos' = DOMAIN videos
              /\ \A i \in DOMAIN videos \ {id} : videos'[i] = videos[i]
              /\ \A f \in DOMAIN videos[id] \
                          {"status", "message", "error_details"} :
                    videos'[id][f] = videos[id][f]
              /\ videos'[id].message = "Video generation failed"
              /\ videos'[id].error_details # None]_vars

\* a record has failed at progress 85 with its script kept, next to a
\* record that is still queued
C36_Witness ==
    /\ \E id \in DOMAIN videos :
          /\ videos[id].status = FAILED
          /\ videos[id].progress = 85
          /\ videos[id].script_content # None
          /\ videos[id].prompt = Some("prompt")
    /\ \E id \in DOMAIN videos : videos[id].status = QUEUED


\* the reader of thread r is inside get_video, about to take the record out
\* of the table, while another thread has called update_video on that record
ReadsBesideWriter(r, w) ==
    /\ InBody(r, "get_video")
    /\ w # r
    /\ threads[w].op = "update_video"
    /\ threads[w].video_id = threads[r].video_id
    /\ threads[w].pc # "idle"

BlockedCalls == {"delete_video", "get_stats"}

\* C39: no call of the registry blocks for ever on the registry lock: every
\* call takes the lock, releases it and returns, so between two steps of the
\* event loop the lock is held by nobody.
C39_RegistryDeadlockFree == lock \notin BlockedCalls

====
